---------------------------- MODULE Spec2Model ----------------------------
(***************************************************************************)
(* Value-preserving literals (gsi::constinteger, gsi::constreal and the    *)
(* _ConstBinaryOps operator mixin of include/gsi/val.h).                   *)
(*                                                                         *)
(* The machine is scaled down: unsigned long long has ULLBits bits instead *)
(* of 64, and every other arithmetic type keeps its place relative to it   *)
(* (short < int < long long = width of unsigned long long; float < double  *)
(* < long double, whose mantissa is as wide as unsigned long long, as on   *)
(* x86-64).  All integer arithmetic keeps its width (mod 2^bits); floating *)
(* values are exact multiples of the smallest long double step and every   *)
(* floating operation rounds to nearest, ties to even.                     *)
(***************************************************************************)
EXTENDS Integers, FiniteSets, Sequences, TLC

(* ------------------------------ scale -------------------------------- *)

\* width of unsigned long long (the type of constinteger::_M_value)
ULLBits == 4
\* mantissa bits of float
FloatMant == 2
\* binary digits after the point of the smallest long double step
FracBits == 2
\* longest run of unary operators applied to one literal
MaxUnary == 3

RECURSIVE Pow2(_)
Pow2(n) == IF n <= 0 THEN 1 ELSE 2 * Pow2(n - 1)

ULLMod == Pow2(ULLBits)
ShortBits == ULLBits - 2
IntBits == ULLBits - 1
DoubleMant == FloatMant + 1
\* long double steps per unit
Unit == Pow2(FracBits)

(* ------------------------------ types -------------------------------- *)

IntegralTypes == {"bool", "short", "ushort", "int", "uint", "llong", "ullong"}
FloatingTypes == {"float", "double", "ldouble"}
\* concept __arithmetic
ArithmeticTypes == IntegralTypes \cup FloatingTypes

integral(T) == T \in IntegralTypes
floating_point(T) == T \in FloatingTypes
arithmetic(T) == integral(T) \/ floating_point(T)
signed_integral(T) == T \in {"short", "int", "llong"}
unsigned_integral(T) == integral(T) /\ ~signed_integral(T)

Bits(T) ==
  CASE T = "bool" -> 1
    [] T \in {"short", "ushort"} -> ShortBits
    [] T \in {"int", "uint"} -> IntBits
    [] T \in {"llong", "ullong"} -> ULLBits

Mant(T) ==
  CASE T = "float" -> FloatMant
    [] T = "double" -> DoubleMant
    [] T = "ldouble" -> ULLBits

\* smallest positive step of a floating type, in long double steps
Quantum(T) == IF T = "float" THEN 2 ELSE 1

\* numeric_limits<T>::max() of a floating type, in long double steps
MaxMag(T) == (Pow2(Mant(T)) - 1) * Pow2(ULLBits - Mant(T) + 1) * Unit

\* numeric_limits<T>::max() and lowest() of an integral type
IntMax(T) == IF signed_integral(T) THEN Pow2(Bits(T) - 1) - 1 ELSE Pow2(Bits(T)) - 1
IntLowest(T) == IF signed_integral(T) THEN 0 - Pow2(Bits(T) - 1) ELSE 0

IntValues(T) == IntLowest(T) .. IntMax(T)

(* ----------------------- integer conversions ------------------------- *)

\* static_cast<unsigned long long>(v) of an integer v
ToULL(v) == v % ULLMod

\* unary minus on unsigned long long
NegULL(v) == (ULLMod - v) % ULLMod

\* conversion of an integer v to the integral type T
WrapUnsigned(T, v) == v % Pow2(Bits(T))
IntCast(T, v) ==
  CASE T = "bool" -> IF v = 0 THEN 0 ELSE 1
    [] unsigned_integral(T) /\ T # "bool" -> WrapUnsigned(T, v)
    [] signed_integral(T) ->
         IF v % Pow2(Bits(T)) > IntMax(T)
           THEN (v % Pow2(Bits(T))) - Pow2(Bits(T))
           ELSE v % Pow2(Bits(T))

(* ------------------------- floating values --------------------------- *)

Fin(neg, mag) == [cls |-> "fin", neg |-> neg, mag |-> mag]
Inf(neg) == [cls |-> "inf", neg |-> neg, mag |-> 0]
NaN == [cls |-> "nan", neg |-> FALSE, mag |-> 0]

\* round half to even of a / b, for a >= 0 and b > 0
RoundHalfEven(a, b) ==
  LET q == a \div b
      r == a % b
  IN  IF 2 * r > b \/ (2 * r = b /\ q % 2 = 1) THEN q + 1 ELSE q

\* the spacing of T's values around num / den
RECURSIVE Ulp(_, _, _, _)
Ulp(num, den, T, u) ==
  IF num < den * u * Pow2(Mant(T)) THEN u ELSE Ulp(num, den, T, 2 * u)

\* the value of T nearest to the non-negative num / den (in long double steps)
RoundTo(T, neg, num, den) ==
  LET u == Ulp(num, den, T, Quantum(T))
      m == RoundHalfEven(num, den * u) * u
  IN  IF m > MaxMag(T) THEN Inf(neg) ELSE Fin(neg, m)

\* the finite magnitudes of T
RECURSIVE Binades(_, _)
Binades(T, u) ==
  IF u * (Pow2(Mant(T)) - 1) > MaxMag(T) THEN {}
  ELSE {k * u : k \in 0 .. (Pow2(Mant(T)) - 1)} \cup Binades(T, 2 * u)
Magnitudes(T) == Binades(T, Quantum(T))

FloatValues(T) ==
  {Fin(n, m) : n \in BOOLEAN, m \in Magnitudes(T)} \cup {Inf(FALSE), Inf(TRUE), NaN}

\* unary minus
FNeg(f) == IF f.cls = "nan" THEN f ELSE [f EXCEPT !.neg = ~f.neg]

\* conversion between floating types (to a wider type it is exact)
FloatCast(T, f) == IF f.cls = "fin" THEN RoundTo(T, f.neg, f.mag, 1) ELSE f

\* conversion of a non-negative integer to a floating type
IntToFloat(T, v) == RoundTo(T, FALSE, v * Unit, 1)
\* conversion of any integer to a floating type
SIntToFloat(T, v) == IF v < 0 THEN RoundTo(T, TRUE, (0 - v) * Unit, 1) ELSE IntToFloat(T, v)

\* the signed value of a finite f, in long double steps
Steps(f) == IF f.neg THEN 0 - f.mag ELSE f.mag

\* IEEE comparisons (false whenever an operand is a NaN, except for !=)
FLess(a, b) ==
  /\ a.cls # "nan" /\ b.cls # "nan"
  /\ \/ a.cls = "inf" /\ a.neg /\ ~(b.cls = "inf" /\ b.neg)
     \/ b.cls = "inf" /\ ~b.neg /\ ~(a.cls = "inf" /\ ~a.neg)
     \/ a.cls = "fin" /\ b.cls = "fin" /\ Steps(a) < Steps(b)
FEq(a, b) ==
  /\ a.cls # "nan" /\ b.cls # "nan"
  /\ \/ a.cls = "inf" /\ b.cls = "inf" /\ a.neg = b.neg
     \/ a.cls = "fin" /\ b.cls = "fin" /\ Steps(a) = Steps(b)


\* truncation of a finite f toward zero, as a signed integer
Trunc(f) == IF f.neg THEN 0 - (f.mag \div Unit) ELSE f.mag \div Unit

(* ------------------------------ literals ----------------------------- *)

\* struct constinteger { unsigned long long _M_value; bool _M_negative; }
constinteger(value, negative) ==
  [kind |-> "constinteger", value |-> value, negative |-> negative]

\* struct constreal { long double _M_value; }
constreal(value) == [kind |-> "constreal", value |-> value]

\* operator""_val(unsigned long long): every integer literal token
IntegerTokens == {constinteger(m, FALSE) : m \in 0 .. ULLMod - 1}

\* operator""_val(long double): a floating literal token is a non-negative,
\* finite long double (the host rounds the decimal text to long double)
RealTokens == {constreal(Fin(FALSE, m)) : m \in Magnitudes("ldouble")}

\* val(long double x): any long double, NaN and the infinities included
RealValues == {constreal(f) : f \in FloatValues("ldouble")}

\* val() negating in the signed type itself, which overflows at the minimum
val_SignedNegation(T, x) ==
  IF unsigned_integral(T) THEN constinteger(ToULL(x), FALSE)
  ELSE IF x >= 0 THEN constinteger(ToULL(x), FALSE)
  ELSE constinteger(ToULL(IntCast(T, 0 - x)), TRUE)

\* val(unsigned_integral auto x) and val(signed_integral auto x)
val(T, x) ==
  IF unsigned_integral(T) THEN constinteger(ToULL(x), FALSE)
  ELSE IF x >= 0 THEN constinteger(ToULL(x), FALSE)
  ELSE constinteger(NegULL(ToULL(x)), TRUE)

\* a unary minus that sets the sign instead of flipping it
Negate_SetsSign(v) ==
  IF v.kind = "constinteger" THEN constinteger(v.value, TRUE)
  ELSE constreal(IF v.value.cls = "nan" THEN v.value ELSE [v.value EXCEPT !.neg = TRUE])

\* friend operator-(constinteger) and operator-(constreal)
Negate(v) ==
  IF v.kind = "constinteger" THEN constinteger(v.value, ~v.negative)
  ELSE constreal(FNeg(v.value))

\* friend operator+(constinteger) and operator+(constreal)
UnaryPlus(v) == v

\* operator~ and operator! deleted for constinteger alone
Deleted_IntegerOnly(op, kind) ==
  /\ op \in {"~", "!"}
  /\ kind = "constinteger"

\* operator~ and operator! are deleted functions of both literal types
Deleted(op, kind) ==
  /\ op \in {"~", "!"}
  /\ kind \in {"constinteger", "constreal"}

(* --------------------- value-preserving conversion ------------------- *)

\* what a conversion, an operator or a statement ends in
Zero(T) == IF floating_point(T) THEN Fin(FALSE, 0) ELSE 0
Ok(v) == [status |-> "ok", val |-> v]
\* throw bad_value_preserving_cast()
Throw(T) == [status |-> "throw", val |-> Zero(T)]
\* the constant evaluation meets undefined behaviour: no constant expression
IllFormed(T) == [status |-> "ill_formed", val |-> Zero(T)]

\* static_cast<unsigned long long>(f): defined only when the truncated
\* value fits; otherwise the behaviour is undefined
FloatToULLDefined(f) == f.cls = "fin" /\ ~(f.neg /\ Trunc(f) # 0) /\ Trunc(f) < ULLMod

\* constinteger::operator _Up, the floating_point branch
IntegerToFloating(v, T) ==
  LET r == IntToFloat(T, v.value)
      result == Ok(IF v.negative THEN FNeg(r) ELSE r)
  IN  IF FloatToULLDefined(r)
        THEN {IF Trunc(r) # v.value THEN Throw(T) ELSE result}
        ELSE {IllFormed(T)} \cup
             {IF back # v.value THEN Throw(T) ELSE result : back \in 0 .. ULLMod - 1}

\* a range check that takes the negative bound to be -max()
IntegerToIntegral_SymmetricRange(v, T) ==
  IF \/ v.negative /\ v.value > IntMax(T)
     \/ ~v.negative /\ v.value > IntMax(T)
    THEN {Throw(T)}
    ELSE {Ok(IntCast(T, IF v.negative THEN NegULL(v.value) ELSE v.value))}

\* a range check that rejects every negative literal for an unsigned type
IntegerToIntegral_NoNegativeUnsigned(v, T) ==
  IF \/ v.negative /\ unsigned_integral(T)
     \/ v.negative /\ v.value > NegULL(ToULL(IntLowest(T)))
     \/ ~v.negative /\ v.value > IntMax(T)
    THEN {Throw(T)}
    ELSE {Ok(IntCast(T, IF v.negative THEN NegULL(v.value) ELSE v.value))}

\* constinteger::operator _Up, the integral branch
IntegerToIntegral(v, T) ==
  IF \/ v.negative /\ v.value > NegULL(ToULL(IntLowest(T)))
     \/ ~v.negative /\ v.value > IntMax(T)
    THEN {Throw(T)}
    ELSE {Ok(IntCast(T, IF v.negative THEN NegULL(v.value) ELSE v.value))}

\* constinteger::operator _Up
IntegerConvert(v, T) ==
  IF floating_point(T) THEN IntegerToFloating(v, T) ELSE IntegerToIntegral(v, T)

\* numeric_limits<T>::max() and lowest(), converted to long double
LimitMax(T) ==
  IF floating_point(T) THEN FloatCast("ldouble", Fin(FALSE, MaxMag(T)))
  ELSE SIntToFloat("ldouble", IntMax(T))
LimitLowest(T) ==
  IF floating_point(T) THEN FloatCast("ldouble", Fin(TRUE, MaxMag(T)))
  ELSE SIntToFloat("ldouble", IntLowest(T))

\* static_cast<T>(long double) is undefined for an integer type (other than
\* bool) when the truncated value does not fit
RealCastDefined(f, T) ==
  \/ floating_point(T)
  \/ T = "bool"
  \/ f.cls = "fin" /\ Trunc(f) \in IntValues(T)

\* static_cast<T>(long double), where it is defined
RealCast(f, T) ==
  IF floating_point(T) THEN FloatCast(T, f)
  ELSE IF T = "bool" THEN (IF FEq(f, Fin(FALSE, 0)) THEN 0 ELSE 1)
  ELSE Trunc(f)

\* static_cast<long double>(T)
ToLongDouble(T, c) ==
  IF floating_point(T) THEN FloatCast("ldouble", c) ELSE SIntToFloat("ldouble", c)

\* constreal::operator _Up, after the range check
RealRoundTrip(v, T, c) ==
  IF ~FEq(ToLongDouble(T, c), v.value) THEN Throw(T) ELSE Ok(c)

\* constreal::operator _Up
RealConvert(v, T) ==
  IF FLess(LimitMax(T), v.value) \/ FLess(v.value, LimitLowest(T))
    THEN {Throw(T)}
  ELSE IF RealCastDefined(v.value, T)
    THEN {RealRoundTrip(v, T, RealCast(v.value, T))}
  ELSE {IllFormed(T)} \cup {RealRoundTrip(v, T, c) : c \in IntValues(T)}

\* _ConvertTo<T>(const constinteger&) and _ConvertTo<T>(const constreal&)
ConvertTo(T, v) ==
  IF v.kind = "constinteger" THEN IntegerConvert(v, T) ELSE RealConvert(v, T)

(* -------------------------- native operators ------------------------ *)

ArithmeticOps == {"+", "-", "*", "/"}
IntegralOps == {"%", "&", "|", "^"}
BinaryOps == ArithmeticOps \cup IntegralOps
CompareOps == {"==", "!=", "<=", ">=", "<", ">"}

\* integral promotion: a type narrower than int is computed as int
Promote(T) == IF T \in {"bool", "short", "ushort"} THEN "int" ELSE T

\* integer division truncates toward zero
TruncDiv(a, b) ==
  LET q == (IF a < 0 THEN 0 - a ELSE a) \div (IF b < 0 THEN 0 - b ELSE b)
  IN  IF (a < 0) # (b < 0) THEN 0 - q ELSE q

Bit(op, a, b) ==
  CASE op = "&" -> IF a = 1 /\ b = 1 THEN 1 ELSE 0
    [] op = "|" -> IF a = 1 \/ b = 1 THEN 1 ELSE 0
    [] op = "^" -> IF a # b THEN 1 ELSE 0

RECURSIVE Bitwise(_, _, _, _)
Bitwise(op, a, b, n) ==
  IF n = 0 THEN 0
  ELSE Bit(op, a % 2, b % 2) + 2 * Bitwise(op, a \div 2, b \div 2, n - 1)

\* the mathematical result of a op b on integers of the promoted type P
\* (bitwise operators act on the two's complement patterns)
IntResult(op, P, a, b) ==
  CASE op = "+" -> a + b
    [] op = "-" -> a - b
    [] op = "*" -> a * b
    [] op = "/" -> IF b = 0 THEN 0 ELSE TruncDiv(a, b)
    [] op = "%" -> IF b = 0 THEN 0 ELSE a - b * TruncDiv(a, b)
    [] op \in {"&", "|", "^"} ->
         IntCast(P, Bitwise(op, a % Pow2(Bits(P)), b % Pow2(Bits(P)), Bits(P)))

\* a op b is undefined on division by zero and on signed overflow
IntDefined(op, P, a, b) ==
  /\ op \in {"/", "%"} => b # 0
  /\ signed_integral(P) => IntResult(op, P, a, b) \in IntValues(P)
  /\ signed_integral(P) /\ op = "%" => ~(a = IntLowest(P) /\ b = 0 - 1)

\* IEEE addition, multiplication and division in the format T
FAdd(T, a, b) ==
  IF a.cls = "nan" \/ b.cls = "nan" THEN NaN
  ELSE IF a.cls = "inf" /\ b.cls = "inf" THEN (IF a.neg = b.neg THEN a ELSE NaN)
  ELSE IF a.cls = "inf" THEN a
  ELSE IF b.cls = "inf" THEN b
  ELSE LET s == Steps(a) + Steps(b)
       IN  IF s = 0 THEN Fin(a.neg /\ b.neg, 0)
           ELSE IF s < 0 THEN RoundTo(T, TRUE, 0 - s, 1)
           ELSE RoundTo(T, FALSE, s, 1)

FMul(T, a, b) ==
  IF a.cls = "nan" \/ b.cls = "nan" THEN NaN
  ELSE IF a.cls = "inf" \/ b.cls = "inf"
    THEN (IF (a.cls = "fin" /\ a.mag = 0) \/ (b.cls = "fin" /\ b.mag = 0)
            THEN NaN ELSE Inf(a.neg # b.neg))
  ELSE RoundTo(T, a.neg # b.neg, a.mag * b.mag, Unit)

FDiv(T, a, b) ==
  IF a.cls = "nan" \/ b.cls = "nan" THEN NaN
  ELSE IF a.cls = "inf" THEN (IF b.cls = "inf" THEN NaN ELSE Inf(a.neg # b.neg))
  ELSE IF b.cls = "inf" THEN Fin(a.neg # b.neg, 0)
  ELSE IF b.mag = 0 THEN (IF a.mag = 0 THEN NaN ELSE Inf(a.neg # b.neg))
  ELSE RoundTo(T, a.neg # b.neg, a.mag * Unit, b.mag)

FloatResult(op, T, a, b) ==
  CASE op = "+" -> FAdd(T, a, b)
    [] op = "-" -> FAdd(T, a, FNeg(b))
    [] op = "*" -> FMul(T, a, b)
    [] op = "/" -> FDiv(T, a, b)

\* the built-in a op b is defined (no undefined behaviour)
NativeDefined(op, T, a, b) ==
  floating_point(T) \/ IntDefined(op, Promote(T), a, b)

\* the built-in a op b of two operands of type T: for an integral T its
\* type is Promote(T), which may be wider than T
NativeBinary(op, T, a, b) ==
  IF floating_point(T) THEN FloatResult(op, T, a, b)
  ELSE IntCast(Promote(T), IntResult(op, Promote(T), a, b))

\* conversion of the result of the built-in operator on T operands to T
ToOperandType(T, r) == IF floating_point(T) THEN r ELSE IntCast(T, r)

\* the value a holds after the built-in a op= b
NativeCompound(op, T, a, b) == ToOperandType(T, NativeBinary(op, T, a, b))

\* the built-in comparison a op b of two operands of type T
NativeCompare(op, T, a, b) ==
  IF floating_point(T)
    THEN CASE op = "==" -> FEq(a, b)
           [] op = "!=" -> ~FEq(a, b)
           [] op = "<=" -> FLess(a, b) \/ FEq(a, b)
           [] op = ">=" -> FLess(b, a) \/ FEq(a, b)
           [] op = "<" -> FLess(a, b)
           [] op = ">" -> FLess(b, a)
    ELSE CASE op = "==" -> a = b
           [] op = "!=" -> a # b
           [] op = "<=" -> a <= b
           [] op = ">=" -> a >= b
           [] op = "<" -> a < b
           [] op = ">" -> a > b

(* ------------------- _ConstBinaryOps: the operators ------------------ *)

\* %, &, | and ^ constrained to an integer literal as well
OperatorDefined_IntegerLiteralOnly(op, T, kind) ==
  /\ \/ op \in ArithmeticOps /\ arithmetic(T)
     \/ op \in IntegralOps /\ integral(T) /\ kind = "constinteger"
     \/ op \in CompareOps /\ arithmetic(T)
  /\ kind \in {"constinteger", "constreal"}

\* _GLIBCXX_CONVERTTO_OP(constraint, op): the constraint is on the type of
\* the concrete operand; _ConvertTo<_Tp> accepts either literal type
OperatorDefined(op, T, kind) ==
  /\ \/ op \in ArithmeticOps /\ arithmetic(T)
     \/ op \in IntegralOps /\ integral(T)
     \/ op \in CompareOps /\ arithmetic(T)
  /\ kind \in {"constinteger", "constreal"}

\* operator op##=(_Tp& __a, _ConvertTo<_Tp> __b) { return __a += __b._M_value; }
CompoundBody(op, T, a, b) == NativeCompound("+", T, a, b)
CompoundBodyDefined(op, T, a, b) == NativeDefined("+", T, a, b)

\* _Tp operator op(_Tp __a, _ConvertTo<_Tp> __b) { return __a op __b._M_value; }
LeftBody(op, T, a, b) == ToOperandType(T, NativeBinary(op, T, a, b))

\* literal op x with the operands swapped
RightBody_Swapped(op, T, a, b) == ToOperandType(T, NativeBinary(op, T, b, a))

\* _Tp operator op(_ConvertTo<_Tp> __a, _Tp __b) { return __a._M_value op __b; }
RightBody(op, T, a, b) == ToOperandType(T, NativeBinary(op, T, a, b))

\* bool operator op(_Tp __a, _ConvertTo<_Tp> __b) { return __a op __b._M_value; }
CompareLeftBody(op, T, a, b) == NativeCompare(op, T, a, b)

\* bool operator op(_ConvertTo<_Tp> __a, _Tp __b) { return __a._M_value op __b; }
CompareRightBody(op, T, a, b) == NativeCompare(op, T, a, b)

(* ---------------------------- the program ---------------------------- *)

\* A constant-evaluated sequence of statements over one concrete variable x
\* of type T and one literal lit, as in the lambda of tests/arithmetic.cpp.
\*   T, x    the concrete variable
\*   lit     the literal the next statement uses
\*   orig    the literal as constructed, unary the unary operators applied
\*           to it since, in order
\*   out     the statement just evaluated and what it ended in
VARIABLES T, x, lit, orig, unary, out
vars == <<T, x, lit, orig, unary, out>>

\* the types of the concrete operand x (every arithmetic type is a target
\* of Convert and a source of FromValue)
OperandTypes == {"bool", "short", "ushort", "int", "uint", "float"}

Values(U) == IF floating_point(U) THEN FloatValues(U) ELSE IntValues(U)

\* out keeps an integer result in val, a floating one in fval and the
\* result of a comparison in bval
Ready ==
  [op |-> "none", form |-> "none", type |-> "none", status |-> "none",
   val |-> 0, fval |-> Fin(FALSE, 0), bval |-> FALSE]
ready == out.op = "none"

Statement(op, form, U, o) ==
  [op |-> op, form |-> form, type |-> U, status |-> o.status,
   val |-> IF floating_point(U) THEN 0 ELSE o.val,
   fval |-> IF floating_point(U) THEN o.val ELSE Fin(FALSE, 0),
   bval |-> FALSE]

\* the statement does not compile: no viable operator, or a deleted one
Rejected(op, form, U) ==
  [op |-> op, form |-> form, type |-> U, status |-> "rejected",
   val |-> 0, fval |-> Fin(FALSE, 0), bval |-> FALSE]

\* a comparison and the boolean it returns
Compared(op, form, U, status, b) ==
  [op |-> op, form |-> form, type |-> U, status |-> status,
   val |-> 0, fval |-> Fin(FALSE, 0), bval |-> b]

\* the value the statement yields
Result == IF floating_point(out.type) THEN out.fval ELSE out.val

\* the built-in operator inside the library operator has undefined
\* behaviour: any value, or no constant expression
Undefined(U) ==
  {IllFormed(U)} \cup {[status |-> "undefined", val |-> v] : v \in Values(U)}

\* T x{}; the literal written first is 0_val
Init ==
  /\ T \in OperandTypes
  /\ x = Zero(T)
  /\ lit = constinteger(0, FALSE)
  /\ orig = lit
  /\ unary = <<>>
  /\ out = Ready

\* operator""_val(unsigned long long) and operator""_val(long double)
Literal ==
  /\ ready
  /\ lit' \in IntegerTokens \/ lit' \in RealTokens
  /\ orig' = lit'
  /\ unary' = <<>>
  /\ UNCHANGED <<T, x, out>>

\* val(U(v)) of an integral constant, and val(long double)
FromValue ==
  /\ ready
  /\ \/ \E U \in IntegralTypes : \E v \in IntValues(U) : lit' = val(U, v)
     \/ lit' \in RealValues
  /\ orig' = lit'
  /\ unary' = <<>>
  /\ UNCHANGED <<T, x, out>>

\* -m_val: a token under one unary minus
SignedLiteral ==
  /\ ready
  /\ \E t \in IntegerTokens : lit' = Negate(t) /\ orig' = t
  /\ unary' = <<"-">>
  /\ UNCHANGED <<T, x, out>>

\* -lit
UnaryMinus ==
  /\ ready
  /\ Len(unary) < MaxUnary
  /\ lit' = Negate(lit)
  /\ unary' = Append(unary, "-")
  /\ UNCHANGED <<T, x, orig, out>>

\* +lit
Plus ==
  /\ ready
  /\ Len(unary) < MaxUnary
  /\ lit' = UnaryPlus(lit)
  /\ unary' = Append(unary, "+")
  /\ UNCHANGED <<T, x, orig, out>>

\* ~lit
Complement ==
  /\ ready
  /\ IF Deleted("~", lit.kind)
       THEN out' = Rejected("~", "unary", "none") /\ lit' = lit
       ELSE out' = Statement("~", "unary", "bool", Ok(0)) /\ lit' = lit
  /\ UNCHANGED <<T, x, orig, unary>>

\* !lit
LogicalNot ==
  /\ ready
  /\ IF Deleted("!", lit.kind)
       THEN out' = Rejected("!", "unary", "none") /\ lit' = lit
       ELSE out' = Statement("!", "unary", "bool", Ok(0)) /\ lit' = lit
  /\ UNCHANGED <<T, x, orig, unary>>

\* U y = lit;
Convert ==
  /\ ready
  /\ \E U \in ArithmeticTypes : \E o \in ConvertTo(U, lit) :
       out' = Statement("convert", "init", U, o)
  /\ UNCHANGED <<T, x, lit, orig, unary>>

\* x = lit;
Assign ==
  /\ ready
  /\ \E o \in ConvertTo(T, lit) :
       /\ out' = Statement("convert", "assign", T, o)
       /\ x' = IF o.status = "ok" THEN o.val ELSE x
  /\ UNCHANGED <<T, lit, orig, unary>>

\* a compound assignment that adds the unchecked literal to x before the
\* conversion is checked
CompoundAssign_PartialUpdate ==
  /\ ready
  /\ \E op \in BinaryOps :
       IF ~OperatorDefined(op, T, lit.kind)
         THEN out' = Rejected(op, "compound", T) /\ x' = x
       ELSE \E c \in ConvertTo(T, lit) :
         IF c.status # "ok"
           THEN /\ out' = Statement(op, "compound", T, c)
                /\ x' = IF integral(T) /\ lit.kind = "constinteger"
                          THEN IntCast(T, x + lit.value)
                          ELSE x
         ELSE IF CompoundBodyDefined(op, T, x, c.val)
           THEN /\ x' = CompoundBody(op, T, x, c.val)
                /\ out' = Statement(op, "compound", T, Ok(x'))
         ELSE \E u \in Undefined(T) :
                /\ x' = IF u.status = "undefined" THEN u.val ELSE x
                /\ out' = Statement(op, "compound", T, u)
  /\ UNCHANGED <<T, lit, orig, unary>>

\* x op= lit;
CompoundAssign ==
  /\ ready
  /\ \E op \in BinaryOps :
       IF ~OperatorDefined(op, T, lit.kind)
         THEN out' = Rejected(op, "compound", T) /\ x' = x
       ELSE \E c \in ConvertTo(T, lit) :
         IF c.status # "ok"
           THEN out' = Statement(op, "compound", T, c) /\ x' = x
         ELSE IF CompoundBodyDefined(op, T, x, c.val)
           THEN /\ x' = CompoundBody(op, T, x, c.val)
                /\ out' = Statement(op, "compound", T, Ok(x'))
         ELSE \E u \in Undefined(T) :
                /\ x' = IF u.status = "undefined" THEN u.val ELSE x
                /\ out' = Statement(op, "compound", T, u)
  /\ UNCHANGED <<T, lit, orig, unary>>

\* a binary operator that also checks that its result fits T
BinaryLeft_CheckedResult ==
  /\ ready
  /\ \E op \in BinaryOps :
       IF ~OperatorDefined(op, T, lit.kind)
         THEN out' = Rejected(op, "left", T)
       ELSE \E c \in ConvertTo(T, lit) :
         IF c.status # "ok"
           THEN out' = Statement(op, "left", T, c)
         ELSE IF NativeDefined(op, T, x, c.val)
           THEN IF NativeBinary(op, T, x, c.val) = LeftBody(op, T, x, c.val)
                  THEN out' = Statement(op, "left", T, Ok(LeftBody(op, T, x, c.val)))
                  ELSE out' = Statement(op, "left", T, Throw(T))
         ELSE \E u \in Undefined(T) : out' = Statement(op, "left", T, u)
  /\ UNCHANGED <<T, x, lit, orig, unary>>

\* y = x op lit;
BinaryLeft ==
  /\ ready
  /\ \E op \in BinaryOps :
       IF ~OperatorDefined(op, T, lit.kind)
         THEN out' = Rejected(op, "left", T)
       ELSE \E c \in ConvertTo(T, lit) :
         IF c.status # "ok"
           THEN out' = Statement(op, "left", T, c)
         ELSE IF NativeDefined(op, T, x, c.val)
           THEN out' = Statement(op, "left", T, Ok(LeftBody(op, T, x, c.val)))
         ELSE \E u \in Undefined(T) : out' = Statement(op, "left", T, u)
  /\ UNCHANGED <<T, x, lit, orig, unary>>

\* y = lit op x;
BinaryRight ==
  /\ ready
  /\ \E op \in BinaryOps :
       IF ~OperatorDefined(op, T, lit.kind)
         THEN out' = Rejected(op, "right", T)
       ELSE \E c \in ConvertTo(T, lit) :
         IF c.status # "ok"
           THEN out' = Statement(op, "right", T, c)
         ELSE IF NativeDefined(op, T, c.val, x)
           THEN out' = Statement(op, "right", T, Ok(RightBody(op, T, c.val, x)))
         ELSE \E u \in Undefined(T) : out' = Statement(op, "right", T, u)
  /\ UNCHANGED <<T, x, lit, orig, unary>>

\* b = x op lit;   for a comparison op
CompareLeft ==
  /\ ready
  /\ \E op \in CompareOps : \E c \in ConvertTo(T, lit) :
       out' = Compared(op, "left", T, c.status,
                       c.status = "ok" /\ CompareLeftBody(op, T, x, c.val))
  /\ UNCHANGED <<T, x, lit, orig, unary>>

\* b = lit op x;   for a comparison op
CompareRight ==
  /\ ready
  /\ \E op \in CompareOps : \E c \in ConvertTo(T, lit) :
       out' = Compared(op, "right", T, c.status,
                       c.status = "ok" /\ CompareRightBody(op, T, c.val, x))
  /\ UNCHANGED <<T, x, lit, orig, unary>>

\* the next statement of the sequence
NextStatement ==
  /\ ~ready
  /\ out' = Ready
  /\ UNCHANGED <<T, x, lit, orig, unary>>

\* statements that mix the concrete variable and a literal
Next ==
  \/ Literal
  \/ FromValue
  \/ SignedLiteral
  \/ Convert
  \/ Assign
  \/ CompoundAssign
  \/ BinaryLeft
  \/ BinaryRight
  \/ CompareLeft
  \/ CompareRight
  \/ NextStatement

Spec == Init /\ [][Next]_vars

\* expressions of unary operators over one literal, then its conversion
NextUnary ==
  \/ Literal
  \/ FromValue
  \/ UnaryMinus
  \/ Plus
  \/ Complement
  \/ LogicalNot
  \/ Convert
  \/ NextStatement

InitUnary == Init /\ T = "int"

SpecUnary == InitUnary /\ [][NextUnary]_vars

\* statements of operators between the concrete variable and a literal
NextMixed ==
  \/ Literal
  \/ FromValue
  \/ SignedLiteral
  \/ Assign
  \/ CompoundAssign
  \/ BinaryLeft
  \/ BinaryRight
  \/ CompareLeft
  \/ CompareRight
  \/ NextStatement

SpecMixed == Init /\ [][NextMixed]_vars

(* ----------------------------- properties --------------------------- *)

\* the integer a constinteger stands for
LiteralValue(v) == IF v.negative THEN 0 - v.value ELSE v.value

\* the literal v has exactly one value of the type U equal to it
IsExact(v, U) ==
  IF v.kind = "constinteger"
    THEN IF integral(U) THEN LiteralValue(v) \in IntValues(U)
         ELSE v.value * Unit \in Magnitudes(U)
    ELSE /\ v.value.cls = "fin"
         /\ IF integral(U)
              THEN v.value.mag % Unit = 0 /\ Trunc(v.value) \in IntValues(U)
              ELSE v.value.mag \in Magnitudes(U)

\* that value
ExactValue(v, U) ==
  IF v.kind = "constinteger"
    THEN IF integral(U) THEN LiteralValue(v) ELSE Fin(v.negative, v.value * Unit)
    ELSE IF integral(U) THEN Trunc(v.value) ELSE v.value

\* C1: an integer literal converts to an integral type T exactly when its
\* value lies in [Tmin, Tmax], and then to that value; otherwise the
\* conversion throws bad_value_preserving_cast.
C1_IntegralConversion ==
  (out.op = "convert" /\ lit.kind = "constinteger" /\ integral(out.type)) =>
    /\ (out.status = "throw") <=> (LiteralValue(lit) \notin IntValues(out.type))
    /\ out.status # "throw" => out.status = "ok" /\ Result = LiteralValue(lit)

\* -2^(N-1) converted to a signed N-bit type yields its minimum
C1_Witness ==
  /\ out.op = "convert" /\ out.type = "short" /\ out.status = "ok"
  /\ lit = constinteger(Pow2(ShortBits - 1), TRUE)
  /\ Result = IntLowest("short")

\* C2: after x op= literal, x holds the built-in x op convert<T>(literal),
\* and the expression yields x.
C2_CompoundAppliesOperator ==
  [][(ready /\ out'.form = "compound" /\ out'.status = "ok") =>
       \E c \in ConvertTo(T, lit) :
         /\ c.status = "ok"
         /\ NativeDefined(out'.op, T, x, c.val) =>
              /\ x' = NativeCompound(out'.op, T, x, c.val)
              /\ Result' = x']_<<out.op, out.form, out.status>>

\* C3: val(v) of any value v of an integral type converts back to that
\* type and yields v; the magnitude of the minimum of a signed N-bit type
\* is 2^(N-1), with the sign flag set.
C3_IntegerRoundTrip ==
  (out.op = "convert" /\ lit.kind = "constinteger" /\ integral(out.type)) =>
    /\ \A v \in IntValues(out.type) :
         lit = val(out.type, v) => out.status = "ok" /\ Result = v
    /\ signed_integral(out.type) =>
         val(out.type, IntLowest(out.type))
           = constinteger(Pow2(Bits(out.type) - 1), TRUE)

\* the minimum of long long, through val and back
C3_Witness ==
  /\ out.op = "convert" /\ out.type = "llong" /\ out.status = "ok"
  /\ lit = val("llong", IntLowest("llong"))
  /\ unary = <<>>
  /\ Result = IntLowest("llong")

\* C4: an integer literal converts to a floating type T exactly when its
\* magnitude is a value of T, and then to that value with the sign applied;
\* every other magnitude throws bad_value_preserving_cast.
C4_FloatingConversion ==
  (out.op = "convert" /\ lit.kind = "constinteger" /\ floating_point(out.type)) =>
    IF IsExact(lit, out.type)
      THEN out.status = "ok" /\ Result = ExactValue(lit, out.type)
      ELSE out.status = "throw"

\* C5: a real literal converts to an arithmetic type T exactly when T has a
\* value equal to it, and then to that value; otherwise the conversion
\* throws bad_value_preserving_cast.
C5_RealConversion ==
  (out.op = "convert" /\ lit.kind = "constreal") =>
    IF IsExact(lit, out.type)
      THEN out.status = "ok" /\ Result = ExactValue(lit, out.type)
      ELSE out.status = "throw"

BinaryDone ==
  out.op \in BinaryOps /\ out.form \in {"left", "right"} /\ out.status = "ok"

\* C6 as stated: x op literal and literal op x equal the built-in operator
\* on x and the converted literal, in that order, and are values of T.
C6_BinaryIsNative ==
  BinaryDone =>
    \E c \in ConvertTo(T, lit) :
      /\ c.status = "ok"
      /\ Result = IF out.form = "left" THEN NativeBinary(out.op, T, x, c.val)
                   ELSE NativeBinary(out.op, T, c.val, x)
      /\ Result \in Values(T)

\* C6, amended: x op literal and literal op x are the result of the
\* built-in operator on x and the converted literal, in that order,
\* converted to T.
C6_BinaryIsNativeConverted ==
  BinaryDone =>
    \E c \in ConvertTo(T, lit) :
      /\ c.status = "ok"
      /\ Result = IF out.form = "left"
                     THEN ToOperandType(T, NativeBinary(out.op, T, x, c.val))
                     ELSE ToOperandType(T, NativeBinary(out.op, T, c.val, x))
      /\ Result \in Values(T)

\* literal - x for a short x, where the order of the operands shows
C6_Witness ==
  /\ BinaryDone /\ out.op = "-" /\ out.form = "right" /\ T = "short"
  /\ x = 1 /\ lit = constinteger(1, TRUE) /\ Result = IntLowest("short")

\* C7: a comparison of x and a literal is the built-in comparison of x and
\* the literal converted to T, in the order written; when T has no value
\* equal to the literal it throws bad_value_preserving_cast.
C7_ComparisonChecked ==
  (out.op \in CompareOps) =>
    IF IsExact(lit, T)
      THEN /\ out.status = "ok"
           /\ out.bval = IF out.form = "left"
                          THEN NativeCompare(out.op, T, x, ExactValue(lit, T))
                          ELSE NativeCompare(out.op, T, ExactValue(lit, T), x)
      ELSE out.status = "throw"

MixedDone ==
  out.op \in BinaryOps /\ out.form \in {"compound", "left", "right"}

\* C8 as stated: %, &, | and ^ between an integral x and a real literal
\* are rejected, while + - * / are defined for both literal types.
C8_IntegralOpsRejectReal ==
  MixedDone =>
    /\ (integral(T) /\ out.op \in IntegralOps /\ lit.kind = "constreal") =>
         out.status = "rejected"
    /\ out.op \in ArithmeticOps => out.status # "rejected"

\* C8, amended: %, &, | and ^ are rejected exactly when the concrete
\* operand is of a floating type, whichever the literal type; a real
\* literal beside an integral x goes through the checked conversion.
C8_IntegralOpsNeedIntegralOperand ==
  MixedDone =>
    /\ (out.status = "rejected") <=> (out.op \in IntegralOps /\ floating_point(T))
    /\ out.status = "throw" => Throw(T) \in ConvertTo(T, lit)
    /\ (out.status # "rejected" /\ ConvertTo(T, lit) = {Throw(T)}) =>
         out.status = "throw"

\* x % 2.0_val for an int x
C8_Witness ==
  /\ MixedDone /\ out.op = "%" /\ out.form = "left" /\ T = "int"
  /\ lit = constreal(Fin(FALSE, 2 * Unit)) /\ x = 3
  /\ out.status = "ok" /\ Result = 1

RECURSIVE Minuses(_)
Minuses(ops) ==
  IF ops = <<>> THEN 0
  ELSE (IF Head(ops) = "-" THEN 1 ELSE 0) + Minuses(Tail(ops))

\* C9: unary plus returns the literal unchanged; unary minus of an integer
\* literal flips the sign flag and keeps the magnitude; two of them restore
\* the literal; after any run of unary operators the magnitude is the
\* original and the sign flag is flipped once per minus.
C9_UnaryOperators ==
  /\ UnaryPlus(lit) = lit
  /\ Negate(Negate(lit)) = lit
  /\ lit.kind = orig.kind
  /\ lit.kind = "constinteger" =>
       /\ Negate(lit).value = lit.value
       /\ Negate(lit).negative = ~lit.negative
       /\ lit.value = orig.value
       /\ lit.negative = (orig.negative # (Minuses(unary) % 2 = 1))
  /\ lit.kind = "constreal" =>
       lit.value = IF Minuses(unary) % 2 = 1 THEN FNeg(orig.value) ELSE orig.value

\* -(+(-v)) of a negative literal made by val()
C9_Witness ==
  /\ unary = <<"-", "+", "-">>
  /\ orig = constinteger(Pow2(ULLBits - 1), TRUE)
  /\ lit = orig

\* C10: ~ and ! are rejected on every literal, whatever its value.
C10_ComplementAndNotRejected ==
  /\ out.op \in {"~", "!"} => out.status = "rejected"
  /\ Deleted("~", lit.kind) /\ Deleted("!", lit.kind)

\* ~ on the real literal -2.0
C10_Witness ==
  /\ out.op = "~" /\ out.status = "rejected"
  /\ lit = constreal(Fin(TRUE, 2 * Unit))

\* C11: the literal is converted before the built-in operator runs: a
\* compound assignment that ends in bad_value_preserving_cast leaves x as it
\* was, and so does the step to the statement that follows it, so the next
\* operation starts from the unchanged value.
C11_FailedCompoundKeepsValue ==
  [][/\ (ready /\ out'.form = "compound" /\ out'.status = "throw") =>
          /\ x' = x
          /\ Throw(T) \in ConvertTo(T, lit)
     /\ (out.form = "compound" /\ out.status = "throw") =>
          /\ x' = x
          /\ out' = Ready]_<<out.op, out.form, out.status>>

\* short c holds a value from earlier statements; c += 4_val throws (4 is
\* larger than the maximum of the scaled short) and c keeps its value
C11_Witness ==
  /\ out.form = "compound" /\ out.status = "throw"
  /\ T = "short" /\ x = IntMax("short")
  /\ lit = constinteger(IntMax("short") + 1, FALSE)

\* -0_val
NegativeZero == constinteger(0, TRUE)

\* C12: -0_val has magnitude 0 and the sign flag set; converted to any
\* arithmetic type, unsigned ones included, it succeeds and the value
\* compares equal to zero.
C12_NegativeZeroConverts ==
  /\ Negate(constinteger(0, FALSE)) = NegativeZero
  /\ lit = NegativeZero =>
       \A U \in ArithmeticTypes : \A o \in ConvertTo(U, lit) :
         o.status = "ok" /\ NativeCompare("==", U, o.val, Zero(U))
  /\ (out.op = "convert" /\ lit = NegativeZero) =>
       /\ out.status = "ok"
       /\ NativeCompare("==", out.type, Result, Zero(out.type))

\* unsigned long long y = -0_val;
C12_Witness ==
  /\ out.op = "convert" /\ out.type = "ullong" /\ out.status = "ok"
  /\ orig = constinteger(0, FALSE) /\ unary = <<"-">> /\ lit = NegativeZero
  /\ Result = 0

\* a binary, compound-assignment or comparison operator of x and the literal
\* that exists for T has run
OperationDone ==
  /\ out.op \in BinaryOps \cup CompareOps
  /\ out.form \in {"compound", "left", "right"}
  /\ out.status # "rejected"

\* C13: whether an operation of x and a literal throws
\* bad_value_preserving_cast depends on the literal and T alone: it can throw
\* only when the conversion of the literal to T can, it throws whenever that
\* conversion does, whatever x and the operator are, and it does not throw
\* when the conversion succeeds, whether or not the result fits T: where the
\* built-in operator on x (which a binary operator or a comparison leaves
\* alone) is defined, the operation succeeds.
C13_ThrowDependsOnLiteralOnly ==
  OperationDone =>
    LET conversions == ConvertTo(T, lit)
    IN
    /\ (out.status = "throw") => (Throw(T) \in conversions)
    /\ (\A c \in conversions : c.status = "throw") => (out.status = "throw")
    /\ (\A c \in conversions : c.status = "ok") =>
         out.status \in {"ok", "undefined", "ill_formed"}
    /\ \A c \in conversions :
         (/\ conversions = {c}
          /\ c.status = "ok"
          /\ \/ out.op \in CompareOps
             \/ out.form = "left" /\ NativeDefined(out.op, T, x, c.val)
             \/ out.form = "right" /\ NativeDefined(out.op, T, c.val, x))
         => out.status = "ok"

\* short x at its maximum; x + 1_val does not fit short and yields the
\* wrapped value without throwing
C13_Witness ==
  /\ OperationDone /\ out.op = "+" /\ out.form = "left" /\ T = "short"
  /\ x = IntMax("short") /\ lit = constinteger(1, FALSE)
  /\ out.status = "ok" /\ Result = IntLowest("short")

=============================================================================
